---- MODULE Spec2Model ----
(***************************************************************************)
(* Model of django_spanner/__init__.py: QuerySet.bulk_create as replaced   *)
(* by spanner_bulk_create, with spanner_check_bulk_create_options and      *)
(* spanner_prepare_for_bulk_create.                                        *)
(*                                                                         *)
(* One call of bulk_create is followed from entry to return or raise.      *)
(* Collaborators that are not part of the file (the field's                *)
(* get_pk_value_on_save, _prepare_related_fields_for_save, _batched_insert *)
(* and transaction.atomic) are modelled by their possible outcomes.        *)
(***************************************************************************)
EXTENDS Integers, Sequences, FiniteSets

\* ------------------------------------------------------------------ bounds
MaxObjs == 3
MaxFields == 2
MaxParamsBound == 2

\* ------------------------------------------------------------- vocabulary
NoPk == "None"
\* batch_size=None is the empty tuple, batch_size=h the tuple <<h>>.
NoHint == <<>>
NoConflict == "None"
PkValues == {NoPk, "pre", "gen", "srv"}
FieldKinds == {"auto", "plain", "returning"}
Hints == {NoHint, <<0>>, <<1>>}
FieldArgs == {"empty", "ok", "nonconcrete", "pk"}
UniqueArgs == {"empty", "ok", "pk_token", "nonconcrete"}

Min(a, b) == IF a < b THEN a ELSE b

RECURSIVE SeqsUpTo(_, _)
SeqsUpTo(S, n) ==
  IF n = 0 THEN {<<>>}
  ELSE LET shorter == SeqsUpTo(S, n - 1)
       IN  shorter \cup {Append(s, e) : s \in {t \in shorter : Len(t) = n - 1}, e \in S}

\* A new instance as the caller hands it over, with or without a primary
\* key: _state.adding is True and _state.db is None.
NewObjs ==
  { [pk |-> NoPk, adding |-> TRUE, db |-> "none"],
    [pk |-> "pre", adding |-> TRUE, db |-> "none"] }

\* opts.concrete_fields: the first field is the primary key, which is an
\* AutoField (db_returning = False), another field that is not returned, or
\* a field of opts.db_returning_fields; the other fields are plain columns.
FieldLists ==
  { f \in SeqsUpTo(FieldKinds, MaxFields) :
      /\ Len(f) >= 1
      /\ \A k \in 2 .. Len(f) : f[k] = "plain" }

VARIABLES
  objs,         \* the instances, in the caller's order
  objs0,        \* the instances as they were at entry
  fields,       \* opts.concrete_fields
  max_query_params,  \* connection_db.features.max_query_params
  can_return,   \* features.can_return_rows_from_bulk_insert
  pc,           \* position in spanner_bulk_create
  hint,         \* the batch_size argument
  on_conflict,  \* result of _check_bulk_create_options
  err,          \* exception class raised, "none" if none
  errAt,        \* place the exception was raised
  i,            \* loop index of _prepare_for_bulk_create
  assigned,     \* indices whose key came from get_pk_value_on_save
  batch_size,   \* local batch_size after line 122
  objs_with_pk, \* indices of the instances with a key, in order
  objs_without_pk,
  x,            \* offset of the next chunk of objs_with_pk
  calls,        \* the calls of _batched_insert, in order of issue
  opens,        \* number of atomic scopes entered
  txOpen,       \* an atomic scope is open
  txRows,       \* rows written in the open scope
  dbRows,       \* rows committed
  rArgs,        \* arguments of a stand-alone _check_bulk_create_options call
  rRes          \* its outcome

vars == << objs, objs0, fields, max_query_params, can_return, pc, hint,
           on_conflict, err, errAt, i, assigned, batch_size, objs_with_pk,
           objs_without_pk, x, calls, opens, txOpen, txRows, dbRows, rArgs, rRes >>

callVars == << objs, objs0, fields, max_query_params, can_return, pc, hint,
               on_conflict, err, errAt, i, assigned, batch_size, objs_with_pk,
               objs_without_pk, x, calls, opens, txOpen, txRows, dbRows >>

\* ------------------------------------------------- conflict-option checking
OptionArgs ==
  [ ignore_conflicts : BOOLEAN, update_conflicts : BOOLEAN,
    update_fields : FieldArgs, unique_fields : UniqueArgs,
    supports_ignore_conflicts : BOOLEAN, supports_update_conflicts : BOOLEAN,
    supports_update_conflicts_with_target : BOOLEAN ]

NoArgs ==
  [ ignore_conflicts |-> FALSE, update_conflicts |-> FALSE,
    update_fields |-> "empty", unique_fields |-> "empty",
    supports_ignore_conflicts |-> FALSE, supports_update_conflicts |-> FALSE,
    supports_update_conflicts_with_target |-> FALSE ]

OptionErrors == {"ValueError", "NotSupportedError"}

\* The function without its "if not update_fields" test.
check_options_no_update_fields_test(a) ==
  IF a.ignore_conflicts /\ a.update_conflicts THEN "ValueError"
  ELSE IF a.ignore_conflicts THEN
    IF ~a.supports_ignore_conflicts THEN "NotSupportedError" ELSE "IGNORE"
  ELSE IF a.update_conflicts THEN
    IF ~a.supports_update_conflicts THEN "NotSupportedError"
    ELSE IF a.unique_fields # "empty" /\ ~a.supports_update_conflicts_with_target
      THEN "NotSupportedError"
    ELSE IF a.unique_fields = "empty" /\ a.supports_update_conflicts_with_target
      THEN "ValueError"
    ELSE IF a.update_fields = "nonconcrete" THEN "ValueError"
    ELSE IF a.update_fields = "pk" THEN "ValueError"
    ELSE IF a.unique_fields = "nonconcrete" THEN "ValueError"
    ELSE "UPDATE"
  ELSE NoConflict

\* The policy, or the class of the exception raised. update_fields and
\* unique_fields are given by what the checks read of them: "empty" is None
\* or an empty list; "pk_token" is a unique_fields list holding only "pk".
spanner_check_bulk_create_options(a) ==
  IF a.ignore_conflicts /\ a.update_conflicts THEN "ValueError"
  ELSE IF a.ignore_conflicts THEN
    IF ~a.supports_ignore_conflicts THEN "NotSupportedError" ELSE "IGNORE"
  ELSE IF a.update_conflicts THEN
    IF ~a.supports_update_conflicts THEN "NotSupportedError"
    ELSE IF a.update_fields = "empty" THEN "ValueError"
    ELSE IF a.unique_fields # "empty" /\ ~a.supports_update_conflicts_with_target
      THEN "NotSupportedError"
    ELSE IF a.unique_fields = "empty" /\ a.supports_update_conflicts_with_target
      THEN "ValueError"
    ELSE IF a.update_fields = "nonconcrete" THEN "ValueError"
    ELSE IF a.update_fields = "pk" THEN "ValueError"
    ELSE IF a.unique_fields = "nonconcrete" THEN "ValueError"
    ELSE "UPDATE"
  ELSE NoConflict

\* --------------------------------------------------------- order of steps
\* The order with _prepare_for_bulk_create ahead of the option check.
StepOrderPrepareFirst ==
  << "check_batch_size", "check_parents", "check_empty", "prepare",
     "check_options", "atomic" >>

\* The statements of spanner_bulk_create up to the atomic block, in order.
StepOrder ==
  << "check_batch_size", "check_parents", "check_empty", "check_options",
     "prepare", "atomic" >>

StepAfter(p) ==
  LET k == CHOOSE m \in 1 .. Len(StepOrder) : StepOrder[m] = p
  IN  StepOrder[k + 1]

\* The two groups with the if-blocks swapped.
GroupOrderSwapped == << "without_pk", "with_pk" >>

\* The order of the two if-blocks inside the atomic block.
GroupOrder == << "with_pk", "without_pk" >>

NonEmptyGroup(g, w, wo) == IF g = "with_pk" THEN w # <<>> ELSE wo # <<>>

\* The first non-empty group after position pos, "exit" if there is none.
GroupAfter(pos, w, wo) ==
  LET later == { k \in (pos + 1) .. Len(GroupOrder) :
                   NonEmptyGroup(GroupOrder[k], w, wo) }
  IN  IF later = {} THEN "exit"
      ELSE GroupOrder[CHOOSE k \in later : \A m \in later : k <= m]

GroupPos(g) == CHOOSE k \in 1 .. Len(GroupOrder) : GroupOrder[k] = g

\* ---------------------------------------------------------------- helpers
\* batch_size limited by the caller's hint.
BatchSizeFromHint(h, mq) == IF h # NoHint /\ h[1] < mq THEN h[1] ELSE mq

\* batch_size = connection_db.features.max_query_params
EffectiveBatchSize(h, mq) == mq

RECURSIVE SelectIdx(_, _, _)
SelectIdx(os, k, wantKey) ==
  IF k > Len(os) THEN <<>>
  ELSE IF (os[k].pk # NoPk) = wantKey
    THEN <<k>> \o SelectIdx(os, k + 1, wantKey)
    ELSE SelectIdx(os, k + 1, wantKey)

\* partition(lambda o: o.pk is None, objs): (with key, without key)
Partition(os) == << SelectIdx(os, 1, TRUE), SelectIdx(os, 1, FALSE) >>

Range(s) == { s[k] : k \in 1 .. Len(s) }

\* opts.db_returning_fields holds the primary key
ReturnsPk(f) == f[1] = "returning"

\* [f for f in fields if not isinstance(f, AutoField)]
NonAutoCount(f) == Cardinality({ k \in 1 .. Len(f) : f[k] # "auto" })

\* Rows kept when the scope is left without rolling back.
RowsOnAbortKept(tx, db) == db \cup tx

\* transaction.atomic left by an exception: the scope's rows are dropped.
RowsOnAbort(tx, db) == db

\* Marking inside the zip loop: only instances paired with a returned row.
MarkedWithPkPaired(len, n) == Min(n, len)

\* How many instances of a chunk with keys are marked saved: the second
\* loop runs over the whole chunk.
MarkedWithPk(len, n) == len

\* Marking every instance without a key, whatever was returned.
MarkedWithoutPkAll(len, n) == len

\* How many instances without a key are marked saved: those zip pairs
\* with a returned row.
MarkedWithoutPk(len, n) == Min(n, len)

\* An assertion that only rejects too many rows.
RowCountAssertLenient(canRet, oc, n, len) ==
  canRet /\ oc = NoConflict /\ n > len

\* The assert statement on the returned rows of the group without keys
\* raises (assert statements are executed: Python runs without -O).
RowCountAssertFails(canRet, oc, n, len) ==
  canRet /\ oc = NoConflict /\ n # len

\* ---------------------------------------------------------- initial state
InitCall ==
  /\ objs \in SeqsUpTo(NewObjs, MaxObjs)
  /\ objs0 = objs
  /\ fields \in FieldLists
  \* one row fits into a statement
  /\ max_query_params \in Len(fields) .. MaxParamsBound
  /\ can_return \in BOOLEAN
  /\ pc = StepOrder[1]
  /\ hint = NoHint
  /\ on_conflict = NoConflict
  /\ err = "none"
  /\ errAt = "none"
  /\ i = 1
  /\ assigned = {}
  /\ batch_size = 0
  /\ objs_with_pk = <<>>
  /\ objs_without_pk = <<>>
  /\ x = 1
  /\ calls = <<>>
  /\ opens = 0
  /\ txOpen = FALSE
  /\ txRows = {}
  /\ dbRows = {}

Init == InitCall /\ rArgs = NoArgs /\ rRes = "pending"

\* An exception leaves spanner_bulk_create; inside the atomic block the
\* scope is rolled back on the way out.
Raise(cls, at) ==
  /\ pc' = "failed"
  /\ err' = cls
  /\ errAt' = at
  /\ txOpen' = FALSE
  /\ txRows' = {}
  /\ dbRows' = IF txOpen THEN RowsOnAbort(txRows, dbRows) ELSE dbRows

NoRaise == UNCHANGED << err, errAt >>

\* ----------------------------------------------------------------- actions
\* if batch_size is not None and batch_size <= 0: raise ValueError
CheckBatchSize(h) ==
  /\ pc = "check_batch_size"
  /\ hint' = h
  /\ IF h # NoHint /\ h[1] <= 0
       THEN Raise("ValueError", "batch_size")
       ELSE /\ pc' = StepAfter("check_batch_size")
            /\ NoRaise
            /\ UNCHANGED << txOpen, txRows, dbRows >>
  /\ UNCHANGED << objs, objs0, fields, max_query_params, can_return,
                  on_conflict, i, assigned, batch_size, objs_with_pk,
                  objs_without_pk, x, calls, opens, rArgs, rRes >>

\* for parent in get_parent_list(): a parent of another concrete model
CheckParents(multi_table) ==
  /\ pc = "check_parents"
  /\ IF multi_table
       THEN Raise("ValueError", "multi_table")
       ELSE /\ pc' = StepAfter("check_parents")
            /\ NoRaise
            /\ UNCHANGED << txOpen, txRows, dbRows >>
  /\ UNCHANGED << objs, objs0, fields, max_query_params, can_return,
                  hint, on_conflict, i, assigned, batch_size, objs_with_pk,
                  objs_without_pk, x, calls, opens, rArgs, rRes >>

\* if not objs: return objs
CheckEmpty ==
  /\ pc = "check_empty"
  /\ pc' = IF objs = <<>> THEN "done" ELSE StepAfter("check_empty")
  /\ UNCHANGED << objs, objs0, fields, max_query_params, can_return,
                  hint, on_conflict, err, errAt, i, assigned, batch_size,
                  objs_with_pk, objs_without_pk, x, calls, opens, txOpen,
                  txRows, dbRows, rArgs, rRes >>

\* on_conflict = self._check_bulk_create_options(...)
CheckOptions(a) ==
  /\ pc = "check_options"
  /\ LET r == spanner_check_bulk_create_options(a)
     IN  IF r \in OptionErrors
           THEN /\ Raise(r, "options")
                /\ UNCHANGED on_conflict
           ELSE /\ on_conflict' = r
                /\ pc' = StepAfter("check_options")
                /\ NoRaise
                /\ UNCHANGED << txOpen, txRows, dbRows >>
  /\ UNCHANGED << objs, objs0, fields, max_query_params, can_return,
                  hint, i, assigned, batch_size, objs_with_pk,
                  objs_without_pk, x, calls, opens, rArgs, rRes >>

\* One iteration of the loop of _prepare_for_bulk_create: the key the
\* field's get_pk_value_on_save yields (a value, or None when the field has
\* no default), then _prepare_related_fields_for_save, which may raise.
PrepareObj(key, related_ok) ==
  /\ pc = "prepare"
  /\ i <= Len(objs)
  /\ IF objs[i].pk = NoPk
       THEN /\ objs' = [objs EXCEPT ![i].pk = key]
            /\ assigned' = IF key # NoPk THEN assigned \cup {i} ELSE assigned
       ELSE UNCHANGED << objs, assigned >>
  /\ IF related_ok
       THEN /\ i' = i + 1
            /\ pc' = pc
            /\ NoRaise
            /\ UNCHANGED << txOpen, txRows, dbRows >>
       ELSE /\ Raise("ValueError", "related")
            /\ UNCHANGED i
  /\ UNCHANGED << objs0, fields, max_query_params, can_return, hint,
                  on_conflict, batch_size, objs_with_pk, objs_without_pk, x,
                  calls, opens, rArgs, rRes >>

\* _prepare_for_bulk_create returns.
PrepareReturn ==
  /\ pc = "prepare"
  /\ i > Len(objs)
  /\ pc' = StepAfter("prepare")
  /\ UNCHANGED << objs, objs0, fields, max_query_params, can_return,
                  hint, on_conflict, err, errAt, i, assigned, batch_size,
                  objs_with_pk, objs_without_pk, x, calls, opens, txOpen,
                  txRows, dbRows, rArgs, rRes >>

\* batch_size = max_query_params; with transaction.atomic(...): partition
EnterAtomic ==
  /\ pc = "atomic"
  /\ batch_size' = EffectiveBatchSize(hint, max_query_params)
  /\ txOpen' = TRUE
  /\ opens' = opens + 1
  /\ LET p == Partition(objs)
     IN  /\ objs_with_pk' = p[1]
         /\ objs_without_pk' = p[2]
         /\ pc' = GroupAfter(0, p[1], p[2])
  /\ x' = 1
  /\ UNCHANGED << objs, objs0, fields, max_query_params, can_return,
                  hint, on_conflict, err, errAt, i, assigned, calls, txRows,
                  dbRows, rArgs, rRes >>

InFlight == { k \in 1 .. Len(calls) : calls[k].status = "inflight" }

\* self._batched_insert(chunk_with_pk, fields, batch_size, ...) is called
IssueWithPk ==
  /\ pc = "with_pk"
  /\ InFlight = {}
  /\ x <= Len(objs_with_pk)
  /\ calls' = Append(calls,
       [ group |-> "with_pk",
         idxs |-> SubSeq(objs_with_pk, x, Min(x + batch_size - 1, Len(objs_with_pk))),
         batch_size |-> batch_size,
         nfields |-> Len(fields),
         status |-> "inflight",
         nret |-> 0 ])
  /\ UNCHANGED << objs, objs0, fields, max_query_params, can_return, pc,
                  hint, on_conflict, err, errAt, i, assigned, batch_size,
                  objs_with_pk, objs_without_pk, x, opens, txOpen, txRows,
                  dbRows, rArgs, rRes >>

\* The rows _batched_insert may hand back for len instances.
ReturnCounts(len) == IF can_return THEN 0 .. len ELSE {0}

\* The call returns n rows or raises. The returned values of fields other
\* than the primary key go to the paired instances (the model has no such
\* returning field), and the whole chunk is marked saved.
CompleteWithPk(ok, n) ==
  /\ pc = "with_pk"
  /\ InFlight # {}
  /\ LET c == Len(calls)
         chunk == calls[c].idxs
         marked == MarkedWithPk(Len(chunk), n)
     IN  /\ n \in ReturnCounts(Len(chunk))
         /\ IF ~ok
              THEN /\ Raise("DatabaseError", "insert")
                   /\ calls' = [calls EXCEPT ![c].status = "failed"]
                   /\ UNCHANGED << objs, x >>
              ELSE /\ calls' = [calls EXCEPT ![c].status = "ok", ![c].nret = n]
                   /\ txRows' = txRows \cup Range(chunk)
                   /\ objs' = [ k \in 1 .. Len(objs) |->
                        IF \E m \in 1 .. Len(chunk) : chunk[m] = k
                          THEN LET m == CHOOSE q \in 1 .. Len(chunk) : chunk[q] = k
                               IN  [ pk |-> objs[k].pk,
                                     adding |-> IF m <= marked THEN FALSE ELSE objs[k].adding,
                                     db |-> IF m <= marked THEN "target" ELSE objs[k].db ]
                          ELSE objs[k] ]
                   /\ x' = x + batch_size
                   /\ pc' = IF x + batch_size <= Len(objs_with_pk)
                              THEN "with_pk"
                              ELSE GroupAfter(GroupPos("with_pk"), objs_with_pk, objs_without_pk)
                   /\ NoRaise
                   /\ UNCHANGED << txOpen, dbRows >>
  /\ UNCHANGED << objs0, fields, max_query_params, can_return, hint,
                  on_conflict, i, assigned, batch_size, objs_with_pk,
                  objs_without_pk, opens, rArgs, rRes >>

\* self._batched_insert(objs_without_pk, fields without AutoField, ...)
IssueWithoutPk ==
  /\ pc = "without_pk"
  /\ InFlight = {}
  /\ calls' = Append(calls,
       [ group |-> "without_pk",
         idxs |-> objs_without_pk,
         batch_size |-> batch_size,
         nfields |-> NonAutoCount(fields),
         status |-> "inflight",
         nret |-> 0 ])
  /\ UNCHANGED << objs, objs0, fields, max_query_params, can_return, pc,
                  hint, on_conflict, err, errAt, i, assigned, batch_size,
                  objs_with_pk, objs_without_pk, x, opens, txOpen, txRows,
                  dbRows, rArgs, rRes >>

\* The call returns n rows or raises; the row count is asserted, then each
\* instance paired with a returned row gets the values and is marked saved.
CompleteWithoutPk(ok, n) ==
  /\ pc = "without_pk"
  /\ InFlight # {}
  /\ LET c == Len(calls)
         group == calls[c].idxs
         paired == Min(n, Len(group))
         marked == MarkedWithoutPk(Len(group), n)
     IN  /\ n \in ReturnCounts(Len(group))
         /\ IF ~ok
              THEN /\ Raise("DatabaseError", "insert")
                   /\ calls' = [calls EXCEPT ![c].status = "failed"]
                   /\ UNCHANGED objs
            ELSE IF RowCountAssertFails(can_return, on_conflict, n, Len(group))
              THEN /\ Raise("AssertionError", "assert")
                   /\ calls' = [calls EXCEPT ![c].status = "ok", ![c].nret = n]
                   /\ UNCHANGED objs
              ELSE /\ calls' = [calls EXCEPT ![c].status = "ok", ![c].nret = n]
                   /\ txRows' = txRows \cup Range(group)
                   /\ objs' = [ k \in 1 .. Len(objs) |->
                        IF \E m \in 1 .. Len(group) : group[m] = k
                          THEN LET m == CHOOSE q \in 1 .. Len(group) : group[q] = k
                               IN  [ pk |-> IF m <= paired /\ ReturnsPk(fields)
                                              THEN "srv" ELSE objs[k].pk,
                                     adding |-> IF m <= marked THEN FALSE ELSE objs[k].adding,
                                     db |-> IF m <= marked THEN "target" ELSE objs[k].db ]
                          ELSE objs[k] ]
                   /\ pc' = GroupAfter(GroupPos("without_pk"), objs_with_pk, objs_without_pk)
                   /\ NoRaise
                   /\ UNCHANGED << txOpen, dbRows >>
  /\ UNCHANGED << objs0, fields, max_query_params, can_return, hint,
                  on_conflict, i, assigned, batch_size, objs_with_pk,
                  objs_without_pk, x, opens, rArgs, rRes >>

\* The atomic block is left normally: the scope commits, or the commit
\* raises and the scope is rolled back. Then return objs.
ExitAtomic(ok) ==
  /\ pc = "exit"
  /\ IF ok
       THEN /\ pc' = "done"
            /\ dbRows' = dbRows \cup txRows
            /\ txRows' = {}
            /\ txOpen' = FALSE
            /\ NoRaise
       ELSE Raise("DatabaseError", "commit")
  /\ UNCHANGED << objs, objs0, fields, max_query_params, can_return,
                  hint, on_conflict, i, assigned, batch_size, objs_with_pk,
                  objs_without_pk, x, calls, opens, rArgs, rRes >>

Next ==
  \/ \E h \in Hints : CheckBatchSize(h)
  \/ \E m \in BOOLEAN : CheckParents(m)
  \/ CheckEmpty
  \/ \E a \in OptionArgs : CheckOptions(a)
  \/ \E key \in {NoPk, "gen"}, r \in BOOLEAN : PrepareObj(key, r)
  \/ PrepareReturn
  \/ EnterAtomic
  \/ IssueWithPk
  \/ \E ok \in BOOLEAN, n \in 0 .. MaxObjs : CompleteWithPk(ok, n)
  \/ IssueWithoutPk
  \/ \E ok \in BOOLEAN, n \in 0 .. MaxObjs : CompleteWithoutPk(ok, n)
  \/ \E ok \in BOOLEAN : ExitAtomic(ok)

Spec == Init /\ [][Next]_vars

\* ------------------------- _check_bulk_create_options called on its own
InitResolve ==
  /\ rArgs \in OptionArgs
  /\ rRes = "pending"
  /\ objs = <<>> /\ objs0 = <<>> /\ fields = <<"plain">>
  /\ max_query_params = 1 /\ can_return = FALSE
  /\ pc = "resolve" /\ hint = NoHint /\ on_conflict = NoConflict
  /\ err = "none" /\ errAt = "none" /\ i = 1 /\ assigned = {}
  /\ batch_size = 0 /\ objs_with_pk = <<>> /\ objs_without_pk = <<>>
  /\ x = 1 /\ calls = <<>> /\ opens = 0 /\ txOpen = FALSE
  /\ txRows = {} /\ dbRows = {}

Resolve ==
  /\ pc = "resolve"
  /\ rRes = "pending"
  /\ rRes' = spanner_check_bulk_create_options(rArgs)
  /\ UNCHANGED << rArgs, callVars >>

NextResolve == Resolve

SpecResolve == InitResolve /\ [][NextResolve]_vars

\* The values the variables take.
TypeOK ==
  /\ objs \in Seq([pk : PkValues, adding : BOOLEAN, db : {"none", "target"}])
  /\ Len(objs) = Len(objs0)
  /\ fields \in FieldLists
  /\ max_query_params \in 1 .. MaxParamsBound
  /\ can_return \in BOOLEAN
  /\ pc \in Range(StepOrder) \cup Range(GroupOrder) \cup {"exit", "done", "failed", "resolve"}
  /\ hint \in Hints
  /\ on_conflict \in {NoConflict, "IGNORE", "UPDATE"}
  /\ err \in {"none", "ValueError", "NotSupportedError", "DatabaseError", "AssertionError"}
  /\ i \in 1 .. (Len(objs) + 1)
  /\ assigned \subseteq 1 .. Len(objs)
  /\ txRows \subseteq 1 .. Len(objs)
  /\ dbRows \subseteq 1 .. Len(objs)
  /\ opens \in 0 .. 1
  /\ txOpen \in BOOLEAN
  /\ rRes \in {"pending", NoConflict, "IGNORE", "UPDATE"} \cup OptionErrors

\* ================================================================ claims
AllIdx == 1 .. Len(objs)
OkCalls == { k \in 1 .. Len(calls) : calls[k].status = "ok" }
PosIn(s, e) == CHOOSE m \in 1 .. Len(s) : s[m] = e
Saved(k) == ~objs[k].adding /\ objs[k].db = "target"
Untouched(k) == objs[k].adding = objs0[k].adding /\ objs[k].db = objs0[k].db
NoPreassignedKeys == objs0 # <<>> /\ \A k \in 1 .. Len(objs0) : objs0[k].pk = NoPk

\* C1: all-or-nothing across batches. No row of the call is committed
\* while the call runs or after it has raised; rows are committed only once
\* the call has returned, every _batched_insert call having succeeded, and
\* then they are the rows of all instances.
C1_AllOrNothing ==
  /\ pc # "done" => dbRows = {}
  /\ dbRows # {} =>
       /\ \A k \in 1 .. Len(calls) : calls[k].status = "ok"
       /\ dbRows = AllIdx

\* C1 witness: a later batch fails after an earlier batch was inserted.
C1_Witness ==
  /\ pc = "failed"
  /\ errAt = "insert"
  /\ Len(calls) >= 2
  /\ calls[1].status = "ok"
  /\ calls[Len(calls)].status = "failed"

\* C2 as claimed: with no pre-assigned key in a non-empty list, after a
\* successful return every instance has a key and is no longer new.
C2_Original ==
  (pc = "done" /\ NoPreassignedKeys) =>
    \A k \in AllIdx : objs[k].pk # NoPk /\ ~objs[k].adding

\* C2 amended: with no pre-assigned key in a non-empty list, after a
\* successful return every instance for which get_pk_value_on_save yielded
\* a key has that key and is no longer new; an instance for which it
\* yielded None is no longer new exactly when a returned row was paired
\* with it, and has a key exactly when, besides, the primary key is a
\* returned field.
C2_Amended ==
  (pc = "done" /\ NoPreassignedKeys) =>
    \A k \in AllIdx :
      IF k \in assigned
        THEN objs[k].pk = "gen" /\ ~objs[k].adding
        ELSE LET c == calls[Len(calls)]
                 got == PosIn(c.idxs, k) <= c.nret
             IN  /\ c.group = "without_pk"
                 /\ ~objs[k].adding <=> got
                 /\ objs[k].pk # NoPk <=> (got /\ ReturnsPk(fields))

\* C2 witness: several instances, all given a key by the assigner, on a
\* backend that returns no rows.
C2_Witness ==
  /\ pc = "done"
  /\ NoPreassignedKeys
  /\ Len(objs) >= 2
  /\ assigned = AllIdx
  /\ ~can_return

\* C3 as claimed: every batch handed to _batched_insert holds at most
\* floor(max_query_params / fields per row) instances, and once all are
\* handed over they hold every instance exactly once.
C3_Claim ==
  /\ \A k \in 1 .. Len(calls) :
       calls[k].nfields > 0 =>
         Len(calls[k].idxs) <= max_query_params \div calls[k].nfields
  /\ pc = "done" /\ objs # <<>> =>
       \A e \in AllIdx :
         Cardinality({ <<k, m>> \in (1 .. Len(calls)) \X (1 .. MaxObjs) :
                         m <= Len(calls[k].idxs) /\ calls[k].idxs[m] = e }) = 1

\* C4: a ValueError or NotSupportedError raised by the batch-size test,
\* the parent test or the option check comes before any work: no atomic
\* scope was entered, no insert was issued, no instance was changed.
C4_FailsBeforeWork ==
  (pc = "failed" /\ errAt \in {"batch_size", "multi_table", "options"}) =>
    /\ err \in OptionErrors
    /\ opens = 0 /\ ~txOpen
    /\ calls = <<>> /\ txRows = {} /\ dbRows = {}
    /\ objs = objs0 /\ assigned = {}

\* C4 witness: the option check rejects a call whose list holds an
\* instance that the key assigner would have changed.
C4_Witness ==
  /\ pc = "failed"
  /\ errAt = "options"
  /\ err = "NotSupportedError"
  /\ \E k \in 1 .. Len(objs0) : objs0[k].pk = NoPk

UpdateWithoutFields ==
  /\ rRes # "pending"
  /\ rArgs.update_conflicts
  /\ ~rArgs.ignore_conflicts
  /\ rArgs.update_fields = "empty"

\* C5 as claimed: update_conflicts without ignore_conflicts and with empty
\* update_fields raises ValueError whatever the backend supports.
C5_Original == UpdateWithoutFields => rRes = "ValueError"

\* C5 amended: update_conflicts without ignore_conflicts and with empty
\* update_fields raises ValueError on every backend that supports updating
\* conflicts, whatever unique_fields is; on a backend that does not, it
\* raises NotSupportedError.
C5_Amended ==
  UpdateWithoutFields =>
    rRes = IF rArgs.supports_update_conflicts
             THEN "ValueError" ELSE "NotSupportedError"

\* C5 witness: the case on a backend where every later test would pass.
C5_Witness ==
  /\ UpdateWithoutFields
  /\ rArgs.supports_update_conflicts
  /\ rArgs.supports_update_conflicts_with_target
  /\ rArgs.unique_fields = "ok"
  /\ rRes = "ValueError"

C6_Order ==
  \* at most one atomic scope, and every insert runs inside it
  /\ opens <= 1
  /\ InFlight # {} => txOpen
  \* key assignment over all instances is complete before any insert
  /\ calls # <<>> => (i > Len(objs) /\ pc # "prepare")
  \* every insert with keys is issued before any insert without keys
  /\ \A a, b \in 1 .. Len(calls) :
       a < b => ~(calls[a].group = "without_pk" /\ calls[b].group = "with_pk")
  \* an insert is issued only after all earlier ones have completed
  /\ \A a \in 1 .. Len(calls) : a < Len(calls) => calls[a].status = "ok"

\* C6 as claimed: the steps run in a fixed order inside one atomic scope,
\* key assignment included: while the key assigner runs and has assigned
\* a key, the scope is open.
C6_Original == C6_Order /\ ((pc = "prepare" /\ assigned # {}) => txOpen)

\* C6 amended: key assignment over all instances completes before the
\* atomic scope is entered; the scope is entered once and every insert
\* runs inside it; every insert with keys is issued and completes before
\* any insert without keys; no two inserts overlap.
C6_Amended ==
  /\ C6_Order
  /\ pc \in Range(StepOrder) => (opens = 0 /\ ~txOpen /\ calls = <<>>)
  /\ opens = 1 => i > Len(objs)

\* C6 witness: a call that ran two inserts with keys, then one without.
C6_Witness ==
  /\ pc = "done"
  /\ Len(calls) = 3
  /\ calls[2].group = "with_pk"
  /\ calls[3].group = "without_pk"
  /\ assigned # {}

\* C7 as claimed: on a backend that returns rows and with no conflict
\* policy, a call never returns successfully after some batch got a number
\* of rows different from its number of instances.
C7_Original ==
  (pc = "done" /\ can_return /\ on_conflict = NoConflict) =>
    \A k \in 1 .. Len(calls) : calls[k].nret = Len(calls[k].idxs)

\* C7 amended: on a backend that returns rows and with no conflict policy,
\* a row count different from the number of instances in the batch WITHOUT
\* keys raises AssertionError, which ends the call with nothing committed.
\* Batches with keys are not checked. (The assert statement is taken as
\* executed, as it is unless Python runs with -O.)
C7_Amended ==
  \A k \in 1 .. Len(calls) :
    ( /\ calls[k].group = "without_pk"
      /\ calls[k].status = "ok"
      /\ can_return /\ on_conflict = NoConflict
      /\ calls[k].nret # Len(calls[k].idxs) )
    => (pc = "failed" /\ err = "AssertionError" /\ dbRows = {})

\* C7 witness: the assertion fails after a batch with keys was inserted.
C7_Witness ==
  /\ err = "AssertionError"
  /\ Len(calls) >= 2
  /\ calls[1].group = "with_pk"

\* C8 as claimed: after a batch's insert succeeded, every instance of the
\* batch is no longer new and is bound to the target connection.
C8_Original ==
  \A k \in OkCalls : \A e \in Range(calls[k].idxs) : Saved(e)

\* C8 amended: after the insert of a batch with keys succeeded, every
\* instance of the batch is no longer new and is bound to the target
\* connection, whatever was returned. In the batch without keys, once the
\* row-count assertion has passed, exactly the instances paired with a
\* returned row are; the others keep their state.
C8_Amended ==
  \A k \in OkCalls :
    LET c == calls[k]
    IN  IF c.group = "with_pk"
          THEN \A e \in Range(c.idxs) : Saved(e)
          ELSE errAt # "assert" =>
                 \A m \in 1 .. Len(c.idxs) :
                   IF m <= c.nret THEN Saved(c.idxs[m]) ELSE Untouched(c.idxs[m])

\* C8 witness: a batch with keys and a batch without keys each got fewer
\* rows than instances, the second at least one.
C8_Witness ==
  /\ pc = "done"
  /\ \E k \in OkCalls :
       calls[k].group = "with_pk" /\ calls[k].nret < Len(calls[k].idxs)
  /\ \E k \in OkCalls :
       /\ calls[k].group = "without_pk"
       /\ 0 < calls[k].nret
       /\ calls[k].nret < Len(calls[k].idxs)

\* C9: the batch_size argument does not influence the batches. Whatever
\* the hint, every _batched_insert call gets batch_size max_query_params,
\* the k-th call with keys gets the k-th slice of max_query_params
\* instances of objs_with_pk, and the call without keys gets all of
\* objs_without_pk.
C9_HintIgnored ==
  \A k \in 1 .. Len(calls) :
    /\ calls[k].batch_size = max_query_params
    /\ calls[k].idxs =
         IF calls[k].group = "with_pk"
           THEN SubSeq(objs_with_pk, (k - 1) * max_query_params + 1,
                       Min(k * max_query_params, Len(objs_with_pk)))
           ELSE objs_without_pk

\* C9 witness: a hint below max_query_params, and a chunk larger than it.
C9_Witness ==
  /\ pc = "done"
  /\ hint # NoHint
  /\ hint[1] < max_query_params
  /\ \E k \in 1 .. Len(calls) : Len(calls[k].idxs) > hint[1]

InOkCall(e) == \E k \in OkCalls : e \in Range(calls[k].idxs)

\* C10: rollback does not undo the changes to the instances. After an
\* insert raised, nothing is committed, every instance keeps the key the
\* assigner gave it, every instance of the batches with keys that had
\* completed stays not-new and bound, and the instances of the failed
\* batch and of the batches not yet issued keep their state.
C10_NoUndo ==
  (pc = "failed" /\ errAt = "insert") =>
    /\ dbRows = {}
    /\ \A e \in assigned : objs[e].pk = "gen"
    /\ \A k \in OkCalls :
         calls[k].group = "with_pk" /\ \A e \in Range(calls[k].idxs) : Saved(e)
    /\ \A e \in AllIdx : ~InOkCall(e) => Untouched(e)

\* C10 witness: the second batch fails; the first holds an instance with
\* an assigned key, and a further instance was never sent.
C10_Witness ==
  /\ pc = "failed" /\ errAt = "insert"
  /\ Len(calls) = 2
  /\ \E e \in Range(calls[1].idxs) : e \in assigned
  /\ \E e \in AllIdx : \A k \in 1 .. Len(calls) : e \notin Range(calls[k].idxs)

====
